---- MODULE Spec2Model ----
(***************************************************************************)
(* Model of packages/amplify-cli/src/init-steps/preInitSetup.ts.           *)
(*                                                                         *)
(* preInitSetup is an async function.  Every stretch of code between two   *)
(* awaits runs without interruption and is one action here; pc names the   *)
(* stretch that runs next.  exitOnNextTick(code) does not stop the caller: *)
(* it queues process.exit(code) for the next tick, so the code after it    *)
(* keeps running until the event loop gets to the queued exit.             *)
(***************************************************************************)
EXTENDS Integers, Sequences, FiniteSets, TLC

\* Number of times the caller invokes preInitSetup in one process.
MaxCalls == 2

None == "none"

\* Values of context.parameters.options.app: absent, a reachable-looking
\* repository url, a string that is no repository, and a non-string value
\* (the option given without a value).
GoodUrl == "https://github.com/x/y.git"
BadUrl == "not a url"
NonString == "<non-string>"
Apps == {GoodUrl, BadUrl, NonString}
OptionSet == [app : Apps \cup {None}, quickstart : BOOLEAN]

Cwd == "/cwd"
NoInfo == [projectPath |-> None, defaultEditor |-> None, envName |-> None]
ExistingInfo == [projectPath |-> Cwd, defaultEditor |-> "none", envName |-> "dev"]
Unread == [projectPath |-> "unread", defaultEditor |-> "unread", envName |-> "unread"]
NoResult == [localEnvInfo |-> Unread, envName |-> "unreturned"]

VARIABLES
  pc,                 \* the stretch of code that runs next
  calls,              \* invocations of preInitSetup so far
  options,            \* context.parameters.options of the current invocation
  cwdFiles,           \* fs.readdirSync(process.cwd())
  isWindows,          \* the platform normalizePackageManagerForOS looks at
  localEnvInfo,       \* context.exeInfo.localEnvInfo
  inputEnvName,       \* context.exeInfo.inputParams.amplify.envName
  localEnvFile,       \* what generateLocalEnvInfoFile last wrote
  amplifyDir,         \* the skeleton has been copied into the amplify directory
  ffInitialized,      \* FeatureFlags.isInitialized()
  ffInitCount,        \* calls of FeatureFlags.initialize made by this module
  ffEnsureCount,      \* calls of FeatureFlags.ensureDefaultFeatureFlags
  exitQueue,          \* process.exit codes queued by exitOnNextTick
  exitCode,           \* <<code>> once the process has exited, <<>> while it runs
  \* history of the current invocation
  printed,            \* context.print.* calls
  usageData,          \* context.usageData.emit* calls
  exitRequested,      \* exitOnNextTick codes
  execLog,            \* execSync commands
  trace,              \* starts and ends of the steps, and their effects
  validation,         \* outcome of validateGithubRepo
  filesAtClone,       \* what cloneRepo read from the working directory
  packageManager,     \* getPackageManager()
  normalizedPackageManager,
  persisted,          \* what generateLocalEnvInfoFile was given
  ffEnvRead,          \* what getEnvInfo returned to FeatureFlags.initialize
  atCall,             \* the context and the process when the invocation began
  result              \* the context preInitSetup returned

procVars == <<cwdFiles, isWindows, localEnvInfo, inputEnvName, localEnvFile,
              amplifyDir, ffInitialized, ffInitCount, ffEnsureCount,
              exitQueue, exitCode>>
histVars == <<printed, usageData, exitRequested, execLog, trace, validation,
              filesAtClone, packageManager, normalizedPackageManager,
              persisted, ffEnvRead, atCall, result>>
vars == <<pc, calls, options, procVars, histVars>>

Context == [localEnvInfo |-> localEnvInfo, envName |-> inputEnvName]

Snapshot ==
  [context |-> Context, cwdFiles |-> cwdFiles, localEnvFile |-> localEnvFile,
   amplifyDir |-> amplifyDir, ffInitialized |-> ffInitialized,
   ffInitCount |-> ffInitCount, ffEnsureCount |-> ffEnsureCount,
   exitQueue |-> exitQueue]

Init ==
  /\ pc = "idle"
  /\ calls = 0
  /\ options = [app |-> None, quickstart |-> FALSE]
  /\ cwdFiles \in {{}, {"README.md"}, {"README.md", "package.json"}}
  /\ isWindows \in BOOLEAN
  /\ localEnvInfo \in {NoInfo, ExistingInfo}
  /\ localEnvInfo = ExistingInfo => cwdFiles # {}
  /\ inputEnvName = None
  /\ localEnvFile = NoInfo
  /\ amplifyDir = FALSE
  /\ ffInitialized \in BOOLEAN
  /\ ffInitCount = 0
  /\ ffEnsureCount = 0
  /\ exitQueue = <<>>
  /\ exitCode = <<>>
  /\ printed = <<>>
  /\ usageData = <<>>
  /\ exitRequested = <<>>
  /\ execLog = <<>>
  /\ trace = <<>>
  /\ validation = None
  /\ filesAtClone = {}
  /\ packageManager = None
  /\ normalizedPackageManager = None
  /\ persisted = Unread
  /\ ffEnvRead = Unread
  /\ atCall = Snapshot
  /\ result = NoResult

(***************************************************************************)
(* Collaborators outside the file.                                         *)
(***************************************************************************)

\* exitOnNextTick(code): process.nextTick(() => process.exit(code)).
ExitOnNextTick(queue, codes) == queue \o codes

\* getPackageManager(): the manager of the project in the working
\* directory, none without a manifest.
GetPackageManager(files) ==
  IF "package.json" \in files THEN {"npm", "yarn"} ELSE {None}

\* normalizePackageManagerForOS(packageManager): the name to invoke on this
\* platform, none when no manager was detected.
NormalizePackageManagerForOS(pm, windows) ==
  IF pm = None THEN None
  ELSE IF windows THEN (IF pm = "npm" THEN "npm.cmd" ELSE "yarn.cmd")
  ELSE pm

(***************************************************************************)
(* preInitSetup, lines 18-37.                                              *)
(***************************************************************************)

\* Line 30 taking an absent app option for a quickstart request.
QuickstartByDefault(opts) ==
  IF opts.quickstart \/ opts.app = None THEN "createAmplifySkeleton" ELSE "returned"

\* Line 30: where the function goes once the sample-app branch is over.
QuickstartBranch(opts) ==
  IF opts.quickstart THEN "createAmplifySkeleton" ELSE "returned"

\* Lines 19-25 without the call of validateGithubRepo.
EntryWithoutValidation(opts) ==
  IF opts.app # None THEN "cloneRepo" ELSE QuickstartBranch(opts)

\* Line 19: the branch the call enters.
EntryBranch(opts) ==
  IF opts.app # None THEN "validateGithubRepo" ELSE QuickstartBranch(opts)

\* A call of preInitSetup(context), up to the call of validateGithubRepo or
\* of createAmplifySkeleton, or to the return of line 36.
PreInitSetup ==
  /\ pc \in {"idle", "returned"}
  /\ exitCode = <<>>
  /\ calls < MaxCalls
  /\ \E opts \in OptionSet :
       /\ options' = opts
       /\ pc' = EntryBranch(opts)
       /\ printed' = IF opts.app # None
                     THEN <<"warning: Note: Amplify does not have knowledge of the url provided">>
                     ELSE <<>>
       /\ result' = IF EntryBranch(opts) = "returned" THEN Context ELSE NoResult
  /\ calls' = calls + 1
  /\ usageData' = <<>>
  /\ exitRequested' = <<>>
  /\ execLog' = <<>>
  /\ trace' = <<>>
  /\ validation' = None
  /\ filesAtClone' = {}
  /\ packageManager' = None
  /\ normalizedPackageManager' = None
  /\ persisted' = Unread
  /\ ffEnvRead' = Unread
  /\ atCall' = Snapshot
  /\ UNCHANGED procVars

(***************************************************************************)
(* validateGithubRepo, lines 45-55.                                        *)
(***************************************************************************)

\* Line 47: url.parse throws on a value that is no string.
UrlParseThrows(repoUrl) == repoUrl = NonString

\* Line 49: git ls-remote exits with 0 only for a repository that answers.
LsRemoteSucceeds(repoUrl, remoteUp) == repoUrl = GoodUrl /\ remoteUp

\* Lines 50-54 without the exitOnNextTick of line 53.
ValidateCatchNoExit(failed) ==
  [print |-> IF failed THEN <<"error: Invalid remote github url">> ELSE <<>>,
   emit  |-> IF failed THEN <<"error: InvalidRemoteUrl">> ELSE <<>>,
   exit  |-> <<>>]

\* Lines 50-54: what the catch block does.
ValidateCatch(failed) ==
  [print |-> IF failed THEN <<"error: Invalid remote github url">> ELSE <<>>,
   emit  |-> IF failed THEN <<"error: InvalidRemoteUrl">> ELSE <<>>,
   exit  |-> IF failed THEN <<1>> ELSE <<>>]

ValidateGithubRepo ==
  /\ pc = "validateGithubRepo"
  /\ \E remoteUp \in BOOLEAN :
       LET repoUrl == options.app
           threw   == UrlParseThrows(repoUrl)
           failed  == threw \/ ~LsRemoteSucceeds(repoUrl, remoteUp)
           catch   == ValidateCatch(failed)
       IN  /\ execLog' = IF threw THEN execLog
                         ELSE Append(execLog, [cmd |-> "git ls-remote", arg |-> repoUrl])
           /\ validation' = IF failed THEN "failed" ELSE "ok"
           /\ printed' = printed \o catch.print
           /\ usageData' = usageData \o catch.emit
           /\ exitRequested' = exitRequested \o catch.exit
           /\ exitQueue' = ExitOnNextTick(exitQueue, catch.exit)
  /\ trace' = trace \o <<"validateGithubRepo:start", "validateGithubRepo:end">>
  /\ pc' = "cloneRepo"
  /\ UNCHANGED <<calls, options, cwdFiles, isWindows, localEnvInfo, inputEnvName,
                 localEnvFile, amplifyDir, ffInitialized, ffInitCount,
                 ffEnsureCount, exitCode, filesAtClone, packageManager,
                 normalizedPackageManager, persisted, ffEnvRead, atCall, result>>

(***************************************************************************)
(* cloneRepo, lines 62-78.                                                 *)
(***************************************************************************)

\* Line 65.
DirectoryNotEmpty(files) == Cardinality(files) > 0

\* Lines 65-70: the block reports and queues the exit; it does not return.
NonEmptyBlock(files) ==
  [print |-> IF DirectoryNotEmpty(files)
             THEN <<"error: Please ensure you run this command in an empty directory">>
             ELSE <<>>,
   emit  |-> IF DirectoryNotEmpty(files) THEN <<"error: NonEmptyDirectoryError">> ELSE <<>>,
   exit  |-> IF DirectoryNotEmpty(files) THEN <<1>> ELSE <<>>]

\* Line 73: git clone <url> . refuses a directory that has entries, and needs
\* a repository that answers.
GitCloneSucceeds(repoUrl, files, remoteUp) ==
  files = {} /\ repoUrl = GoodUrl /\ remoteUp

\* Lines 74-77.
CloneCatch(failed) ==
  [emit |-> IF failed THEN <<"error: CloneFailure">> ELSE <<>>,
   exit |-> IF failed THEN <<1>> ELSE <<>>]

CloneRepo ==
  /\ pc = "cloneRepo"
  /\ \E remoteUp \in BOOLEAN, manifest \in BOOLEAN :
       LET repoUrl == options.app
           files   == cwdFiles
           block   == NonEmptyBlock(files)
           cloned  == GitCloneSucceeds(repoUrl, files, remoteUp)
           catch   == CloneCatch(~cloned)
       IN  /\ filesAtClone' = files
           /\ printed' = printed \o block.print
           /\ execLog' = Append(execLog, [cmd |-> "git clone", arg |-> repoUrl])
           /\ usageData' = usageData \o block.emit \o catch.emit
           /\ exitRequested' = exitRequested \o block.exit \o catch.exit
           /\ exitQueue' = ExitOnNextTick(exitQueue, block.exit \o catch.exit)
           /\ cwdFiles' = IF cloned
                          THEN {".git"} \cup (IF manifest THEN {"package.json"} ELSE {})
                          ELSE cwdFiles
  /\ trace' = trace \o <<"cloneRepo:start", "cloneRepo:end">>
  /\ pc' = "installPackage"
  /\ UNCHANGED <<calls, options, isWindows, localEnvInfo, inputEnvName,
                 localEnvFile, amplifyDir, ffInitialized, ffInitCount,
                 ffEnsureCount, exitCode, validation, packageManager,
                 normalizedPackageManager, persisted, ffEnvRead, atCall, result>>

(***************************************************************************)
(* installPackage, lines 85-91.                                            *)
(***************************************************************************)

\* Line 86, up to the await.
DetectPackageManager ==
  /\ pc = "installPackage"
  /\ packageManager' \in GetPackageManager(cwdFiles)
  /\ trace' = Append(trace, "installPackage:start")
  /\ pc' = "normalizePackageManager"
  /\ UNCHANGED <<calls, options, procVars, printed, usageData, exitRequested,
                 execLog, validation, filesAtClone, normalizedPackageManager,
                 persisted, ffEnvRead, atCall, result>>

\* Line 87, up to the await.
NormalizePackageManager ==
  /\ pc = "normalizePackageManager"
  /\ normalizedPackageManager' = NormalizePackageManagerForOS(packageManager, isWindows)
  /\ pc' = "execInstall"
  /\ UNCHANGED <<calls, options, procVars, printed, usageData, exitRequested,
                 execLog, trace, validation, filesAtClone, packageManager,
                 persisted, ffEnvRead, atCall, result>>

\* Line 88.
ShouldInstall(normalized) == normalized # None

\* Line 89 built from the detected name instead of the normalized one.
InstallCommandRaw(pm, normalized) == [cmd |-> pm, arg |-> "install"]

\* Line 89: the command is built from the normalized name.
InstallCommand(pm, normalized) == [cmd |-> normalized, arg |-> "install"]

\* Lines 88-91.  execSync throws when the install exits with a failure, and
\* nothing here catches it.
ExecInstall ==
  /\ pc = "execInstall"
  /\ \E installOk \in BOOLEAN :
       IF ShouldInstall(normalizedPackageManager)
       THEN /\ execLog' = Append(execLog, InstallCommand(packageManager, normalizedPackageManager))
            /\ cwdFiles' = IF installOk THEN cwdFiles \cup {"node_modules"} ELSE cwdFiles
            /\ pc' = IF installOk THEN "setLocalEnvDefaults" ELSE "thrown"
            /\ trace' = Append(trace, IF installOk THEN "installPackage:end"
                                                    ELSE "installPackage:throw")
       ELSE /\ execLog' = execLog
            /\ cwdFiles' = cwdFiles
            /\ pc' = "setLocalEnvDefaults"
            /\ trace' = Append(trace, "installPackage:end")
  /\ UNCHANGED <<calls, options, isWindows, localEnvInfo, inputEnvName,
                 localEnvFile, amplifyDir, ffInitialized, ffInitCount,
                 ffEnsureCount, exitQueue, exitCode, printed, usageData,
                 exitRequested, validation, filesAtClone, packageManager,
                 normalizedPackageManager, persisted, ffEnvRead, atCall, result>>

(***************************************************************************)
(* setLocalEnvDefaults, lines 98-115.                                      *)
(***************************************************************************)

\* Lines 99-101, 106-110.
DefaultEnvInfo ==
  [projectPath |-> Cwd, defaultEditor |-> "vscode", envName |-> "sampledev"]

\* Line 114 moved above the assignment of line 106.
EnvInfoHandedOverEarly(before, after) == before

\* Lines 106-114: generateLocalEnvInfoFile(context) runs after the
\* assignment, so it is given the new record.
EnvInfoHandedOver(before, after) == after

SetLocalEnvDefaults ==
  /\ pc = "setLocalEnvDefaults"
  /\ \E writeOk \in BOOLEAN :
       LET handed == EnvInfoHandedOver(localEnvInfo, DefaultEnvInfo)
       IN  /\ persisted' = handed
           /\ localEnvFile' = IF writeOk THEN handed ELSE localEnvFile
           /\ cwdFiles' = IF writeOk THEN cwdFiles \cup {"amplify"} ELSE cwdFiles
           /\ pc' = IF writeOk THEN "afterSampleApp" ELSE "thrown"
           /\ trace' = trace \o <<"setLocalEnvDefaults:start", "generateLocalEnvInfoFile">>
                             \o (IF writeOk THEN <<"setLocalEnvDefaults:end">> ELSE <<>>)
  /\ printed' = printed \o <<"warning: Setting default editor to vscode",
                             "warning: Setting environment to sampledev",
                             "warning: Run amplify configure project to change the default configuration later">>
  /\ localEnvInfo' = DefaultEnvInfo
  /\ inputEnvName' = DefaultEnvInfo.envName
  /\ UNCHANGED <<calls, options, isWindows, amplifyDir, ffInitialized,
                 ffInitCount, ffEnsureCount, exitQueue, exitCode, usageData,
                 exitRequested, execLog, validation, filesAtClone,
                 packageManager, normalizedPackageManager, ffEnvRead,
                 atCall, result>>

\* Lines 28-30 and 36: the sample-app branch is over.
AfterSampleApp ==
  /\ pc = "afterSampleApp"
  /\ pc' = QuickstartBranch(options)
  /\ result' = IF QuickstartBranch(options) = "returned" THEN Context ELSE result
  /\ UNCHANGED <<calls, options, procVars, printed, usageData, exitRequested,
                 execLog, trace, validation, filesAtClone, packageManager,
                 normalizedPackageManager, persisted, ffEnvRead, atCall>>

(***************************************************************************)
(* createAmplifySkeleton, lines 120-140.                                   *)
(***************************************************************************)

\* Lines 121-126, up to the await of fs.copy.
BeginSkeleton ==
  /\ pc = "createAmplifySkeleton"
  /\ cwdFiles' = cwdFiles \cup {".gitignore"}
  /\ trace' = trace \o <<"createAmplifySkeleton:start", "insertAmplifyIgnore">>
  /\ pc' = "copy"
  /\ UNCHANGED <<calls, options, isWindows, localEnvInfo, inputEnvName,
                 localEnvFile, amplifyDir, ffInitialized, ffInitCount,
                 ffEnsureCount, exitQueue, exitCode, printed, usageData,
                 exitRequested, execLog, validation, filesAtClone,
                 packageManager, normalizedPackageManager, persisted,
                 ffEnvRead, atCall, result>>

\* Line 126 with a copy that is over before the event loop turns
\* (fs.copySync).
CopySyncCompletes(queue) == TRUE

\* Line 126: fs.copy settles in a later turn of the event loop, after the
\* filesystem has answered; a process.exit queued for the next tick runs
\* before that turn.
CopyAwaitCompletes(queue) == queue = <<>>

\* Line 135 without the isInitialized test.
AlwaysInitialize(initialized) == TRUE

\* Line 135.
NeedsInitialize(initialized) == ~initialized

\* Lines 126-139: the copy is over; FeatureFlags.initialize is called, or
\* FeatureFlags.ensureDefaultFeatureFlags when the flags are initialized.
CopyDone ==
  /\ pc = "copy"
  /\ CopyAwaitCompletes(exitQueue)
  /\ \E copyOk \in BOOLEAN :
       IF ~copyOk
       THEN /\ pc' = "thrown"
            /\ UNCHANGED <<amplifyDir, cwdFiles, ffInitCount, ffEnsureCount, trace>>
       ELSE /\ amplifyDir' = TRUE
            /\ cwdFiles' = cwdFiles \cup {"amplify"}
            /\ IF NeedsInitialize(ffInitialized)
               THEN /\ ffInitCount' = ffInitCount + 1
                    /\ ffEnsureCount' = ffEnsureCount
                    /\ trace' = trace \o <<"fs.copy", "FeatureFlags.initialize">>
                    /\ pc' = "initialize"
               ELSE /\ ffInitCount' = ffInitCount
                    /\ ffEnsureCount' = ffEnsureCount + 1
                    /\ trace' = trace \o <<"fs.copy", "FeatureFlags.ensureDefaultFeatureFlags">>
                    /\ pc' = "ensureDefaultFeatureFlags"
  /\ UNCHANGED <<calls, options, isWindows, localEnvInfo, inputEnvName,
                 localEnvFile, ffInitialized, exitQueue, exitCode, printed,
                 usageData, exitRequested, execLog, validation, filesAtClone,
                 packageManager, normalizedPackageManager, persisted,
                 ffEnvRead, atCall, result>>

\* Lines 129-133: the provider hands FeatureFlags.initialize the record the
\* context holds when it asks.
GetEnvInfo(info) == info

\* Lines 136-139: FeatureFlags.initialize is over.
InitializeDone ==
  /\ pc = "initialize"
  /\ \E initOk \in BOOLEAN :
       IF ~initOk
       THEN /\ pc' = "thrown"
            /\ UNCHANGED <<ffInitialized, ffEnvRead, ffEnsureCount, trace>>
       ELSE /\ ffInitialized' = TRUE
            /\ ffEnvRead' = GetEnvInfo(localEnvInfo)
            /\ ffEnsureCount' = ffEnsureCount + 1
            /\ trace' = Append(trace, "FeatureFlags.ensureDefaultFeatureFlags")
            /\ pc' = "ensureDefaultFeatureFlags"
  /\ UNCHANGED <<calls, options, cwdFiles, isWindows, localEnvInfo,
                 inputEnvName, localEnvFile, amplifyDir, ffInitCount,
                 exitQueue, exitCode, printed, usageData, exitRequested,
                 execLog, validation, filesAtClone, packageManager,
                 normalizedPackageManager, persisted, atCall,
                 result>>

\* Lines 139-140: FeatureFlags.ensureDefaultFeatureFlags is over.
EnsureDone ==
  /\ pc = "ensureDefaultFeatureFlags"
  /\ \E ensureOk \in BOOLEAN :
       /\ pc' = IF ensureOk THEN "emitSuccess" ELSE "thrown"
       /\ trace' = IF ensureOk THEN Append(trace, "createAmplifySkeleton:end") ELSE trace
  /\ UNCHANGED <<calls, options, procVars, printed, usageData, exitRequested,
                 execLog, validation, filesAtClone, packageManager,
                 normalizedPackageManager, persisted, ffEnvRead, atCall, result>>

\* Lines 32-33 swapped.
QuickstartEpilogueSwapped == <<"exitOnNextTick(0)", "emitSuccess">>

\* Lines 32-33, in the order they run.
QuickstartEpilogue == <<"emitSuccess", "exitOnNextTick(0)">>

\* Lines 32-36.
FinishQuickstart ==
  /\ pc = "emitSuccess"
  /\ usageData' = Append(usageData, "success")
  /\ exitRequested' = Append(exitRequested, 0)
  /\ exitQueue' = ExitOnNextTick(exitQueue, <<0>>)
  /\ trace' = trace \o QuickstartEpilogue
  /\ result' = Context
  /\ pc' = "returned"
  /\ UNCHANGED <<calls, options, cwdFiles, isWindows, localEnvInfo,
                 inputEnvName, localEnvFile, amplifyDir, ffInitialized,
                 ffInitCount, ffEnsureCount, exitCode, printed, execLog,
                 validation, filesAtClone, packageManager,
                 normalizedPackageManager, persisted, ffEnvRead, atCall>>

(***************************************************************************)
(* The next tick.                                                          *)
(***************************************************************************)

\* The places where preInitSetup waits on a promise, or is over: the event
\* loop may run the queued process.exit there.  The code between two of
\* them is synchronous.
AwaitPoints ==
  {"cloneRepo", "installPackage", "normalizePackageManager", "execInstall",
   "setLocalEnvDefaults", "afterSampleApp", "copy", "initialize",
   "ensureDefaultFeatureFlags", "emitSuccess", "returned", "thrown"}

\* process.exit(code) of the first exitOnNextTick that was queued.
NextTick ==
  /\ pc \in AwaitPoints
  /\ exitCode = <<>>
  /\ exitQueue # <<>>
  /\ exitCode' = <<Head(exitQueue)>>
  /\ pc' = "exited"
  /\ UNCHANGED <<calls, options, cwdFiles, isWindows, localEnvInfo,
                 inputEnvName, localEnvFile, amplifyDir, ffInitialized,
                 ffInitCount, ffEnsureCount, exitQueue, histVars>>

Next ==
  \/ PreInitSetup
  \/ ValidateGithubRepo
  \/ CloneRepo
  \/ DetectPackageManager
  \/ NormalizePackageManager
  \/ ExecInstall
  \/ SetLocalEnvDefaults
  \/ AfterSampleApp
  \/ BeginSkeleton
  \/ CopyDone
  \/ InitializeDone
  \/ EnsureDone
  \/ FinishQuickstart
  \/ NextTick

Spec == Init /\ [][Next]_vars

(***************************************************************************)
(* Properties.                                                             *)
(***************************************************************************)

Range(s) == {s[i] : i \in 1..Len(s)}
Did(e) == e \in Range(trace)
IsPrefix(s, t) == Len(s) <= Len(t) /\ \A i \in 1..Len(s) : s[i] = t[i]
CloneRuns == SelectSeq(execLog, LAMBDA c : c.cmd = "git clone")
InstallRuns == SelectSeq(execLog, LAMBDA c : c.arg = "install")
Errors == SelectSeq(usageData, LAMBDA e : e # "success")
ErrorPrints ==
  SelectSeq(printed, LAMBDA m : m \in {"error: Invalid remote github url",
       "error: Please ensure you run this command in an empty directory"})
Populated(info) ==
  /\ info.projectPath \notin {None, "unread"}
  /\ info.defaultEditor \notin {None, "unread"}
  /\ info.envName \notin {None, "unread"}

\* C1: once cloneRepo has run, a working directory that had an entry means
\* exit code 1 was requested and git clone was never invoked, and an empty
\* one means git clone was invoked exactly once.
C1_CloneOnlyIntoEmptyDirectory ==
  Did("cloneRepo:end") =>
    IF filesAtClone # {}
    THEN 1 \in Range(exitRequested) /\ Len(CloneRuns) = 0
    ELSE Len(CloneRuns) = 1

\* C2: after a failed validation exit code 1 is requested and no later step
\* has an effect: no git clone, no install, no local environment file.
C2_FailedValidationStopsPipeline ==
  validation = "failed" =>
    /\ 1 \in Range(exitRequested)
    /\ CloneRuns = <<>>
    /\ InstallRuns = <<>>
    /\ persisted = Unread

\* C3: right after validateGithubRepo, a url that failed to parse or whose
\* probe failed has exactly one telemetry error, one error line and one
\* request of exit code 1; a url whose probe succeeded has no telemetry, no
\* error line and no exit request.
C3_ValidatorOutcome ==
  /\ validation # None /\ options.app \in {BadUrl, NonString} => validation = "failed"
  /\ pc = "cloneRepo" =>
       IF validation = "failed"
       THEN /\ usageData = <<"error: InvalidRemoteUrl">>
            /\ exitRequested = <<1>>
            /\ ErrorPrints = <<"error: Invalid remote github url">>
       ELSE /\ validation = "ok"
            /\ usageData = <<>>
            /\ exitRequested = <<>>
            /\ ErrorPrints = <<>>

C3_Witness ==
  /\ pc = "cloneRepo"
  /\ validation = "failed"
  /\ options.app = GoodUrl
  /\ exitRequested = <<1>>

StepEvents ==
  SelectSeq(trace, LAMBDA e : e \in
    {"validateGithubRepo:start", "validateGithubRepo:end",
     "cloneRepo:start", "cloneRepo:end",
     "installPackage:start", "installPackage:end",
     "setLocalEnvDefaults:start", "setLocalEnvDefaults:end",
     "createAmplifySkeleton:start", "createAmplifySkeleton:end"})
SampleAppOrder ==
  <<"validateGithubRepo:start", "validateGithubRepo:end",
    "cloneRepo:start", "cloneRepo:end",
    "installPackage:start", "installPackage:end",
    "setLocalEnvDefaults:start", "setLocalEnvDefaults:end">>
SkeletonOrder == <<"createAmplifySkeleton:start", "createAmplifySkeleton:end">>

\* C4: with the app option the steps validate, clone, install and
\* set-local-env-defaults start in that order, each after the one before it
\* has ended and each at most once, skeleton generation starts after all
\* four have ended, and an invocation that returns has run them all.
C4_SampleAppStepsInOrder ==
  options.app # None =>
    LET order == SampleAppOrder \o (IF options.quickstart THEN SkeletonOrder ELSE <<>>)
    IN  /\ IsPrefix(StepEvents, order)
        /\ result # NoResult => StepEvents = order

C4_Witness ==
  /\ options.app # None
  /\ options.quickstart
  /\ result # NoResult
  /\ Did("createAmplifySkeleton:end")

\* C5 as stated: whatever the options, the record generateLocalEnvInfoFile
\* is given and the record getEnvInfo returns to FeatureFlags.initialize
\* have projectPath, defaultEditor and envName set.
C5_RecordPopulatedInEveryInvocation ==
  /\ persisted # Unread => Populated(persisted)
  /\ ffEnvRead # Unread => Populated(ffEnvRead)

\* C5 amended: in an invocation with the app option, the record
\* generateLocalEnvInfoFile is given and the record getEnvInfo returns to
\* FeatureFlags.initialize have projectPath, defaultEditor and envName set
\* (to the working directory, vscode and sampledev).
C5_RecordPopulatedWithApp ==
  options.app # None =>
    /\ persisted # Unread => Populated(persisted) /\ persisted = DefaultEnvInfo
    /\ ffEnvRead # Unread => Populated(ffEnvRead) /\ ffEnvRead = DefaultEnvInfo

C5_Witness ==
  /\ options.app # None
  /\ options.quickstart
  /\ persisted = DefaultEnvInfo
  /\ ffEnvRead = DefaultEnvInfo
  /\ atCall.context.localEnvInfo = NoInfo

QuickstartEffects ==
  SelectSeq(trace, LAMBDA e : e \in
    {"fs.copy", "FeatureFlags.ensureDefaultFeatureFlags", "emitSuccess",
     "exitOnNextTick(0)"})
QuickstartOrder ==
  <<"fs.copy", "FeatureFlags.ensureDefaultFeatureFlags", "emitSuccess",
    "exitOnNextTick(0)">>

\* C6: with only the quickstart option the skeleton is copied, then the
\* default feature flags are ensured, then success telemetry is emitted,
\* then exit code 0 is requested; the process of a single such invocation
\* exits with code 0, and only after all of these.
C6_QuickstartOrder ==
  (calls >= 1 /\ options.app = None /\ options.quickstart) =>
    /\ IsPrefix(QuickstartEffects, QuickstartOrder)
    /\ Did("fs.copy") => amplifyDir
    /\ (result # NoResult \/ 0 \in Range(exitRequested)) =>
         QuickstartEffects = QuickstartOrder /\ usageData = <<"success">>
    /\ (calls = 1 /\ exitCode # <<>>) =>
         exitCode = <<0>> /\ QuickstartEffects = QuickstartOrder

C6_Witness ==
  /\ calls = 1
  /\ options.app = None
  /\ options.quickstart
  /\ exitCode = <<0>>
  /\ amplifyDir

InstallOver == Did("installPackage:end") \/ Did("installPackage:throw")

C8_InstallRuns ==
  /\ Len(InstallRuns) <= 1
  /\ ~InstallOver => InstallRuns = <<>>
  /\ InstallOver =>
       /\ normalizedPackageManager = NormalizePackageManagerForOS(packageManager, isWindows)
       /\ IF normalizedPackageManager # None
          THEN InstallRuns = <<[cmd |-> normalizedPackageManager, arg |-> "install"]>>
          ELSE InstallRuns = <<>> /\ Did("installPackage:end")

C8_SkipContinues ==
  (pc = "execInstall" /\ normalizedPackageManager = None /\ pc' # "exited")
     => pc' = "setLocalEnvDefaults" /\ execLog' = execLog

\* C8: installPackage runs exactly one "<manager> install" when
\* normalizePackageManagerForOS returns a name, with that name, and runs
\* nothing and throws nothing when it returns none; the pipeline then goes
\* on to setLocalEnvDefaults.
C8_InstallUsesNormalizedManager == [](C8_InstallRuns) /\ [][C8_SkipContinues]_vars

C8_Witness ==
  /\ Did("installPackage:end")
  /\ packageManager = "npm"
  /\ normalizedPackageManager = "npm.cmd"
  /\ Len(InstallRuns) = 1

\* C9: with neither option the call returns at once: nothing printed, no
\* telemetry, no subprocess, no exit request, no step, the filesystem and the
\* feature flags as they were, and the returned context equal to the one
\* passed in.
C9_NoOptionsNoEffect ==
  (calls >= 1 /\ options.app = None /\ ~options.quickstart) =>
    /\ pc \in {"returned", "exited"}
    /\ printed = <<>> /\ usageData = <<>> /\ execLog = <<>>
    /\ exitRequested = <<>> /\ trace = <<>>
    /\ Snapshot = atCall
    /\ result = atCall.context

C9_Witness ==
  /\ calls >= 1
  /\ options.app = None
  /\ ~options.quickstart
  /\ pc = "returned"
  /\ result.localEnvInfo = ExistingInfo

\* C10: an invocation never requests both exit code 1 and exit code 0, and
\* one that has emitted an error and requested exit code 1 has no success
\* telemetry.
C10_NoSuccessAfterFailure ==
  /\ ~(0 \in Range(exitRequested) /\ 1 \in Range(exitRequested))
  /\ (Errors # <<>> /\ 1 \in Range(exitRequested)) =>
       "success" \notin Range(usageData) /\ ~Did("emitSuccess")

C10_Witness ==
  /\ options.app # None
  /\ options.quickstart
  /\ Errors # <<>>
  /\ 1 \in Range(exitRequested)
  /\ Did("createAmplifySkeleton:start")
  /\ exitCode = <<1>>

====
